---- MODULE Spec2Model ----
(***************************************************************************)
(* Model of the admin controller of Vita                                   *)
(* (api/src/controllers/admin.controller.ts): the password + OTP login     *)
(* flow and the moderation workflows.  Every handler is an async function; *)
(* it is modelled as a request slot that moves from one await to the next, *)
(* so that other requests, the clock and the store can act in between.     *)
(***************************************************************************)
EXTENDS Integers, Sequences, FiniteSets, TLC

\* ---------------------------------------------------------------- bounds
MaxTime == 2        \* the clock stops ticking here
MaxIssue == 2       \* OTPs issued in all
MaxBanners == 2     \* banner records the collection may hold
MaxToggles == 2     \* answered changeTopMentorStatus calls per mentor

\* ------------------------------------------------------------ input sets
Slots == {"r1", "r2"}
Emails == {"a@x.com", "b@x.com"}
Passwords == {"right", "wrong"}
OtpValues == {"111111", "222222"}
Candidates == OtpValues \cup {"000000"}
UserIds == {"u1"}
MentorIds == {"m1"}
WellFormedIds == UserIds \cup MentorIds \cup {"f9"}
IdInputs == WellFormedIds \cup {"", "not-an-id"}
Payloads == {"B1", "B2"}
Principals == {"", "a@x.com"}

\* mentor_information of a user record: the id of its mentor profile
MentorInformation(u) == "m1"

\* The user record of a mentor profile (the inverse link)
UserOfMentor(m) == "u1"

\* validity window of an OTP, in clock ticks
OtpTTL == 1

\* maxAge of the adminToken cookie, in seconds (1000 * 60 * 60 * 24 * 1 ms)
CookieMaxAge == 86400

VARIABLES
  now,        \* the clock (Date.now())
  accounts,   \* AdminModel collection, by email
  users,      \* UserModel collection, by id
  mentors,    \* MentorModel collection, by id
  banners,    \* BannerModel collection, a sequence of payloads
  outbox,     \* the emails sendEmail has delivered
  cookieJar,  \* the client's adminToken cookie ("" when absent)
  req,        \* the requests in flight, by slot
  issuedLog,  \* history: the OTP values generateOTP issued, per account
  sentCount,  \* history: adminLogin calls answered 200, per account
  okLog,      \* history: answered 200 verifications of the current OTP
  tried,      \* history: a call with the current OTP's value was answered
  toggles,    \* history: answered changeTopMentorStatus calls, per mentor
  top0        \* history: the top_mentor flag each mentor started with

store == <<accounts, users, mentors, banners>>
hist == <<issuedLog, sentCount, okLog, tried, toggles, top0>>
vars == <<now, accounts, users, mentors, banners, outbox, cookieJar, req,
          issuedLog, sentCount, okLog, tried, toggles, top0>>

\* ------------------------------------------------------------- documents
NoAccount == [exists |-> FALSE, password |-> "", hasOtp |-> FALSE, otp |-> "",
              otpExpires |-> 0, otpUsed |-> FALSE]

NoUser == [exists |-> FALSE, email |-> "", mentor_information |-> ""]

NoMentor == [exists |-> FALSE, email |-> "", approved |-> FALSE,
             top_mentor |-> FALSE]

NoCookie == [name |-> "", value |-> "", httpOnly |-> FALSE, maxAge |-> 0]

IdleReq == [op |-> "none", pc |-> "idle", email |-> "", password |-> "",
            otp |-> "", id |-> "", payload |-> "", principal |-> "",
            admin |-> NoAccount, user |-> NoUser, mentor |-> NoMentor,
            queried |-> FALSE, seen |-> 0, quiet |-> FALSE, nth |-> 0, at |-> 0,
            first |-> FALSE,
            delUser |-> "none", delMentor |-> "none",
            mkBanner |-> "none", rmBanners |-> "none",
            mailed |-> "none",
            status |-> 0, body |-> "", isLoggedIn |-> FALSE,
            resUser |-> "", banner |-> "", cookie |-> NoCookie,
            cleared |-> FALSE]

\* res.status(s).json({...}): the request is answered
Respond(q, s, b) == [q EXCEPT !.pc = "done", !.status = s, !.body = b]

\* an await rejected outside any try block: the handler ends, no response
Throw(q) == [q EXCEPT !.pc = "thrown"]

Init ==
  /\ now = 0
  /\ accounts = [e \in Emails |->
                   IF e = "a@x.com"
                   THEN [NoAccount EXCEPT !.exists = TRUE, !.password = "right"]
                   ELSE NoAccount]
  /\ users = [u \in UserIds |->
                [exists |-> TRUE, email |-> "u1@x.com",
                 mentor_information |-> MentorInformation(u)]]
  /\ top0 \in [MentorIds -> BOOLEAN]
  /\ mentors = [m \in MentorIds |->
                  [exists |-> TRUE, email |-> "u1@x.com", approved |-> FALSE,
                   top_mentor |-> top0[m]]]
  /\ banners = <<>>
  /\ outbox = {}
  /\ cookieJar = ""
  /\ req = [r \in Slots |-> IdleReq]
  /\ issuedLog = [e \in Emails |-> <<>>]
  /\ sentCount = [e \in Emails |-> 0]
  /\ okLog = [e \in Emails |-> 0]
  /\ tried = [e \in Emails |-> FALSE]
  /\ toggles = [m \in MentorIds |-> 0]

\* ------------------------------------------------------------ OTP engine
\* admin.comparePassword(password)
comparePassword(doc, password) == doc.password = password

\* admin.verifyOTP(candidate), evaluated on the loaded document at time t
verifyOTP(doc, candidate, t) ==
  /\ doc.hasOtp
  /\ ~doc.otpUsed
  /\ t <= doc.otpExpires
  /\ candidate = doc.otp

\* admin.generateOTP(): the OTP state written to the account
generateOTP(doc, v, t) ==
  [doc EXCEPT !.hasOtp = TRUE, !.otp = v, !.otpExpires = t + OtpTTL,
              !.otpUsed = FALSE]

\* admin.issueToken(): an opaque value identifying the account
issueToken(email) == email

\* what the client's cookie jar holds after a response
SetCookie(tok) == [name |-> "adminToken", value |-> tok, httpOnly |-> TRUE,
                   maxAge |-> CookieMaxAge]

\* variant: a request without principal is refused
adminAuth_Strict(r, principal) ==
  /\ req[r].pc = "idle"
  /\ LET q == [IdleReq EXCEPT !.op = "adminAuth", !.principal = principal]
     IN req' = [req EXCEPT ![r] =
                  IF principal = ""
                  THEN [Respond(q, 401, "User is not logged in.")
                          EXCEPT !.isLoggedIn = FALSE, !.resUser = ""]
                  ELSE [Respond(q, 200, "User is logged in")
                          EXCEPT !.isLoggedIn = TRUE, !.resUser = principal]]
  /\ UNCHANGED <<now, store, outbox, cookieJar, hist>>

\* --------------------------------------------------------------- whoAmI
adminAuth(r, principal) ==
  /\ req[r].pc = "idle"
  /\ LET q == [IdleReq EXCEPT !.op = "adminAuth", !.principal = principal]
     IN req' = [req EXCEPT ![r] =
                  IF principal = ""
                  THEN [Respond(q, 200, "User is not logged in.")
                          EXCEPT !.isLoggedIn = FALSE, !.resUser = ""]
                  ELSE [Respond(q, 200, "User is logged in")
                          EXCEPT !.isLoggedIn = TRUE, !.resUser = principal]]
  /\ UNCHANGED <<now, store, outbox, cookieJar, hist>>

\* ---------------------------------------------------------------- login
RECURSIVE SumLen(_, _)
SumLen(f, S) ==
  IF S = {} THEN 0
  ELSE LET e == CHOOSE x \in S : TRUE IN Len(f[e]) + SumLen(f, S \ {e})

\* the number of OTPs issued so far
Issued == SumLen(issuedLog, Emails)

\* variant: an unknown email gets an answer of its own
adminLoginLookup_Leak(r, email, password, ok) ==
  /\ req[r].pc = "idle"
  /\ Issued + Cardinality({s \in Slots : req[s].pc = "generateOTP"}) < MaxIssue
  /\ LET q == [IdleReq EXCEPT !.op = "adminLogin", !.email = email,
                              !.password = password, !.queried = TRUE,
                              !.seen = Len(issuedLog[email]),
                              !.admin = accounts[email]]
     IN req' = [req EXCEPT ![r] =
                  IF ~ok THEN Throw(q)
                  ELSE IF ~q.admin.exists
                    THEN Respond(q, 404, "Admin not found")
                  ELSE IF ~comparePassword(q.admin, password)
                    THEN Respond(q, 401, "Invalid email or password")
                  ELSE [q EXCEPT !.pc = "generateOTP"]]
  /\ UNCHANGED <<now, store, outbox, cookieJar, hist>>

\* variant: a wrong password drops the pending OTP
adminLoginLookup_Reset(r, email, password, ok) ==
  /\ req[r].pc = "idle"
  /\ Issued + Cardinality({s \in Slots : req[s].pc = "generateOTP"}) < MaxIssue
  /\ LET q == [IdleReq EXCEPT !.op = "adminLogin", !.email = email,
                              !.password = password, !.queried = TRUE,
                              !.seen = Len(issuedLog[email]),
                              !.admin = accounts[email]]
     IN req' = [req EXCEPT ![r] =
                  IF ~ok THEN Throw(q)
                  ELSE IF ~q.admin.exists
                    THEN Respond(q, 401, "Invalid email or password")
                  ELSE IF ~comparePassword(q.admin, password)
                    THEN Respond(q, 401, "Invalid email or password")
                  ELSE [q EXCEPT !.pc = "generateOTP"]]
  /\ accounts' = IF ok /\ accounts[email].exists
                        /\ ~comparePassword(accounts[email], password)
                  THEN [accounts EXCEPT ![email].hasOtp = FALSE]
                  ELSE accounts
  /\ UNCHANGED <<now, users, mentors, banners, outbox, cookieJar, hist>>

\* lines 32-45: findOne, comparePassword and the two 401 answers
adminLoginLookup(r, email, password, ok) ==
  /\ req[r].pc = "idle"
  /\ Issued + Cardinality({s \in Slots : req[s].pc = "generateOTP"}) < MaxIssue
  /\ LET q == [IdleReq EXCEPT !.op = "adminLogin", !.email = email,
                              !.password = password, !.queried = TRUE,
                              !.seen = Len(issuedLog[email]),
                              !.admin = accounts[email]]
     IN req' = [req EXCEPT ![r] =
                  IF ~ok THEN Throw(q)
                  ELSE IF ~q.admin.exists
                    THEN Respond(q, 401, "Invalid email or password")
                  ELSE IF ~comparePassword(q.admin, password)
                    THEN Respond(q, 401, "Invalid email or password")
                  ELSE [q EXCEPT !.pc = "generateOTP"]]
  /\ UNCHANGED <<now, store, outbox, cookieJar, hist>>

\* variant: an OTP that is already stored is not overwritten
adminLoginGenerateOTP_KeepFirst(r, v, ok) ==
  /\ req[r].op = "adminLogin" /\ req[r].pc = "generateOTP"
  /\ LET q == req[r] e == req[r].email
     IN IF ok /\ accounts[e].exists
        THEN /\ accounts' = [accounts EXCEPT ![e] =
                               IF @.hasOtp THEN @ ELSE generateOTP(@, v, now)]
             /\ issuedLog' = [issuedLog EXCEPT ![e] = Append(@, v)]
             /\ okLog' = [okLog EXCEPT ![e] = 0]
             /\ tried' = [tried EXCEPT ![e] = FALSE]
             /\ req' = [req EXCEPT ![r] =
                          [q EXCEPT !.pc = "sendEmail", !.otp = v,
                                    !.nth = Len(issuedLog[e]) + 1,
                                    !.admin = generateOTP(q.admin, v, now)]]
        ELSE /\ req' = [req EXCEPT ![r] = Throw(q)]
             /\ UNCHANGED <<accounts, issuedLog, okLog, tried>>
  /\ UNCHANGED <<now, users, mentors, banners, outbox, cookieJar, sentCount,
                 toggles, top0>>

\* line 47: the OTP is generated and saved on the account
adminLoginGenerateOTP(r, v, ok) ==
  /\ req[r].op = "adminLogin" /\ req[r].pc = "generateOTP"
  /\ LET q == req[r] e == req[r].email
     IN IF ok /\ accounts[e].exists
        THEN /\ accounts' = [accounts EXCEPT ![e] = generateOTP(@, v, now)]
             /\ issuedLog' = [issuedLog EXCEPT ![e] = Append(@, v)]
             /\ okLog' = [okLog EXCEPT ![e] = 0]
             /\ tried' = [tried EXCEPT ![e] = FALSE]
             /\ req' = [req EXCEPT ![r] =
                          [q EXCEPT !.pc = "sendEmail", !.otp = v,
                                    !.nth = Len(issuedLog[e]) + 1,
                                    !.admin = generateOTP(q.admin, v, now)]]
        ELSE /\ req' = [req EXCEPT ![r] = Throw(q)]
             /\ UNCHANGED <<accounts, issuedLog, okLog, tried>>
  /\ UNCHANGED <<now, users, mentors, banners, outbox, cookieJar, sentCount,
                 toggles, top0>>

\* variant: the cookie is set as soon as the password matched
adminLoginSendEmail_Token(r, ok) ==
  /\ req[r].op = "adminLogin" /\ req[r].pc = "sendEmail"
  /\ LET q == req[r]
     IN IF ok
        THEN /\ outbox' = outbox \cup
                  {[to |-> q.email, subject |-> "Vita Admin Login",
                    data |-> q.otp]}
             /\ sentCount' = [sentCount EXCEPT ![q.email] = @ + 1]
             /\ req' = [req EXCEPT ![r] =
                          [Respond(q, 200, "Email sent")
                             EXCEPT !.mailed = "ok",
                                    !.cookie = SetCookie(issueToken(q.email))]]
        ELSE /\ req' = [req EXCEPT ![r] =
                          [Throw(q) EXCEPT !.mailed = "failed"]]
             /\ UNCHANGED <<outbox, sentCount>>
  /\ UNCHANGED <<now, store, cookieJar, issuedLog, okLog, tried, toggles,
                 top0>>

\* variant: a failed email withdraws the OTP it could not deliver
adminLoginSendEmail_Rollback(r, ok) ==
  /\ req[r].op = "adminLogin" /\ req[r].pc = "sendEmail"
  /\ LET q == req[r]
     IN IF ok
        THEN /\ outbox' = outbox \cup
                  {[to |-> q.email, subject |-> "Vita Admin Login",
                    data |-> q.otp]}
             /\ sentCount' = [sentCount EXCEPT ![q.email] = @ + 1]
             /\ req' = [req EXCEPT ![r] =
                          [Respond(q, 200, "Email sent") EXCEPT !.mailed = "ok"]]
             /\ UNCHANGED accounts
        ELSE /\ req' = [req EXCEPT ![r] =
                          [Throw(q) EXCEPT !.mailed = "failed"]]
             /\ accounts' = [accounts EXCEPT ![q.email].hasOtp = FALSE]
             /\ UNCHANGED <<outbox, sentCount>>
  /\ UNCHANGED <<now, users, mentors, banners, cookieJar, issuedLog, okLog,
                 tried, toggles, top0>>

\* lines 48-55: the OTP email, not guarded by a try block
adminLoginSendEmail(r, ok) ==
  /\ req[r].op = "adminLogin" /\ req[r].pc = "sendEmail"
  /\ LET q == req[r]
     IN IF ok
        THEN /\ outbox' = outbox \cup
                  {[to |-> q.email, subject |-> "Vita Admin Login",
                    data |-> q.otp]}
             /\ sentCount' = [sentCount EXCEPT ![q.email] = @ + 1]
             /\ req' = [req EXCEPT ![r] =
                          [Respond(q, 200, "Email sent") EXCEPT !.mailed = "ok"]]
        ELSE /\ req' = [req EXCEPT ![r] =
                          [Throw(q) EXCEPT !.mailed = "failed"]]
             /\ UNCHANGED <<outbox, sentCount>>
  /\ UNCHANGED <<now, store, cookieJar, issuedLog, okLog, tried, toggles,
                 top0>>

\* ----------------------------------------------------------- verify OTP
\* every OTP issued for the account has been mailed and no login is in flight
LoginsCompleted(e) ==
  /\ sentCount[e] = Len(issuedLog[e])
  /\ \A s \in Slots : ~(req[s].op = "adminLogin" /\ req[s].email = e
                         /\ req[s].pc \in {"generateOTP", "sendEmail"})

\* lines 59-65: findOne and the 401 answer for an unknown account
adminVerifyOtpLookup(r, email, candidate, ok) ==
  /\ req[r].pc = "idle"
  /\ LET q == [IdleReq EXCEPT !.op = "adminVerifyOtp", !.email = email,
                              !.otp = candidate, !.queried = TRUE,
                              !.seen = Len(issuedLog[email]),
                              !.quiet = LoginsCompleted(email),
                              !.admin = accounts[email]]
     IN req' = [req EXCEPT ![r] =
                  IF ~ok THEN Throw(q)
                  ELSE IF ~q.admin.exists
                    THEN Respond(q, 401, "Invalid email or password")
                  ELSE [q EXCEPT !.pc = "verifyOTP"]]
  /\ UNCHANGED <<now, store, outbox, cookieJar, hist>>

\* the call is made with the value of the OTP the account holds
Correct(q) == q.admin.hasOtp /\ q.otp = q.admin.otp

\* variant: the result of verifyOTP is not tested
adminVerifyOtpCheck_NoGuard(r, ok) ==
  /\ req[r].op = "adminVerifyOtp" /\ req[r].pc = "verifyOTP"
  /\ LET q == [req[r] EXCEPT !.at = now, !.first = ~tried[req[r].email]]
         e == req[r].email
         isOtpMatch == TRUE
     IN IF ~isOtpMatch
        THEN /\ req' = [req EXCEPT ![r] = Respond(q, 401, "Invalid OTP")]
             /\ tried' = [tried EXCEPT ![e] = @ \/ Correct(q)]
             /\ UNCHANGED <<accounts, cookieJar, okLog>>
        ELSE IF ~(ok /\ accounts[e].exists)
        THEN /\ req' = [req EXCEPT ![r] = Throw(q)]
             /\ UNCHANGED <<accounts, cookieJar, okLog, tried>>
        ELSE /\ accounts' = [accounts EXCEPT ![e].otpUsed = TRUE]
             /\ cookieJar' = issueToken(e)
             /\ okLog' = [okLog EXCEPT ![e] = @ + 1]
             /\ tried' = [tried EXCEPT ![e] = TRUE]
             /\ req' = [req EXCEPT ![r] =
                          [Respond(q, 200, "OTP verified")
                             EXCEPT !.resUser = e,
                                    !.cookie = SetCookie(issueToken(e))]]
  /\ UNCHANGED <<now, users, mentors, banners, outbox, issuedLog, sentCount,
                 toggles, top0>>

\* variant: a refused attempt consumes the pending OTP
adminVerifyOtpCheck_Burn(r, ok) ==
  /\ req[r].op = "adminVerifyOtp" /\ req[r].pc = "verifyOTP"
  /\ LET q == [req[r] EXCEPT !.at = now, !.first = ~tried[req[r].email]]
         e == req[r].email
         isOtpMatch == verifyOTP(q.admin, q.otp, now)
     IN IF ~isOtpMatch
        THEN /\ req' = [req EXCEPT ![r] = Respond(q, 401, "Invalid OTP")]
             /\ tried' = [tried EXCEPT ![e] = @ \/ Correct(q)]
             /\ accounts' = [accounts EXCEPT ![e].otpUsed = TRUE]
             /\ UNCHANGED <<cookieJar, okLog>>
        ELSE IF ~(ok /\ accounts[e].exists)
        THEN /\ req' = [req EXCEPT ![r] = Throw(q)]
             /\ UNCHANGED <<accounts, cookieJar, okLog, tried>>
        ELSE /\ accounts' = [accounts EXCEPT ![e].otpUsed = TRUE]
             /\ cookieJar' = issueToken(e)
             /\ okLog' = [okLog EXCEPT ![e] = @ + 1]
             /\ tried' = [tried EXCEPT ![e] = TRUE]
             /\ req' = [req EXCEPT ![r] =
                          [Respond(q, 200, "OTP verified")
                             EXCEPT !.resUser = e,
                                    !.cookie = SetCookie(issueToken(e))]]
  /\ UNCHANGED <<now, users, mentors, banners, outbox, issuedLog, sentCount,
                 toggles, top0>>

\* lines 67-85: verifyOTP, then the token, the cookie and the 200 answer
adminVerifyOtpCheck(r, ok) ==
  /\ req[r].op = "adminVerifyOtp" /\ req[r].pc = "verifyOTP"
  /\ LET q == [req[r] EXCEPT !.at = now, !.first = ~tried[req[r].email]]
         e == req[r].email
         isOtpMatch == verifyOTP(q.admin, q.otp, now)
     IN IF ~isOtpMatch
        THEN /\ req' = [req EXCEPT ![r] = Respond(q, 401, "Invalid OTP")]
             /\ tried' = [tried EXCEPT ![e] = @ \/ Correct(q)]
             /\ UNCHANGED <<accounts, cookieJar, okLog>>
        ELSE IF ~(ok /\ accounts[e].exists)
        THEN /\ req' = [req EXCEPT ![r] = Throw(q)]
             /\ UNCHANGED <<accounts, cookieJar, okLog, tried>>
        ELSE /\ accounts' = [accounts EXCEPT ![e].otpUsed = TRUE]
             /\ cookieJar' = issueToken(e)
             /\ okLog' = [okLog EXCEPT ![e] = @ + 1]
             /\ tried' = [tried EXCEPT ![e] = TRUE]
             /\ req' = [req EXCEPT ![r] =
                          [Respond(q, 200, "OTP verified")
                             EXCEPT !.resUser = e,
                                    !.cookie = SetCookie(issueToken(e))]]
  /\ UNCHANGED <<now, users, mentors, banners, outbox, issuedLog, sentCount,
                 toggles, top0>>

\* ------------------------------------------------ createAdmin and logout
\* lines 96-110: the email index is unique, a duplicate makes save() reject
createAdmin(r, email, password, ok) ==
  /\ req[r].pc = "idle"
  /\ LET q == [IdleReq EXCEPT !.op = "createAdmin", !.email = email,
                              !.password = password]
     IN IF ok /\ ~accounts[email].exists
        THEN /\ accounts' = [accounts EXCEPT ![email] =
                               [NoAccount EXCEPT !.exists = TRUE,
                                                 !.password = password]]
             /\ req' = [req EXCEPT ![r] =
                          Respond(q, 201, "Admin Created Successfully")]
        ELSE /\ req' = [req EXCEPT ![r] = Throw(q)]
             /\ UNCHANGED accounts
  /\ UNCHANGED <<now, users, mentors, banners, outbox, cookieJar, hist>>

\* lines 112-117
adminLogout(r) ==
  /\ req[r].pc = "idle"
  /\ cookieJar' = ""
  /\ req' = [req EXCEPT ![r] =
               [Respond([IdleReq EXCEPT !.op = "adminLogout"], 200, "success")
                  EXCEPT !.cleared = TRUE]]
  /\ UNCHANGED <<now, store, outbox, hist>>

\* -------------------------------------------------------- the environment
\* time passes
Tick ==
  /\ now < MaxTime
  /\ now' = now + 1
  /\ UNCHANGED <<store, outbox, cookieJar, req, hist>>

\* store operations a rejected Promise.all left behind are still running
Pending(q) ==
  \/ q.delUser = "pending" \/ q.delMentor = "pending"
  \/ q.mkBanner = "pending" \/ q.rmBanners = "pending"

\* the handler has ended and the client sends its next request
Release(r) ==
  /\ req[r].pc \in {"done", "thrown"}
  /\ ~Pending(req[r])
  /\ req' = [req EXCEPT ![r] = IdleReq]
  /\ UNCHANGED <<now, store, outbox, cookieJar, hist>>

\* ------------------------------------------------------------ moderation
\* isValidObjectId(id), preceded by the truthiness test on id
isValidObjectId(id) == id \in WellFormedIds

\* MentorModel.findById(id)
FindMentor(id) == IF id \in MentorIds THEN mentors[id] ELSE NoMentor

\* UserModel.findById(id)
FindUser(id) == IF id \in UserIds THEN users[id] ELSE NoUser

Bool2Str(b) == IF b THEN "true" ELSE "false"

\* the requests that have read a mentor's flag and not yet been answered
Toggling(m) ==
  {s \in Slots : req[s].op = "changeTopMentorStatus" /\ req[s].id = m
                   /\ req[s].pc \in {"save", "sendEmail"}}

\* variant: the id goes to findById unchecked
approveMentorLookup_Raw(r, id, ok) ==
  /\ req[r].pc = "idle"
  /\ LET look == TRUE
         q == [IdleReq EXCEPT !.op = "approveMentor", !.id = id,
                              !.queried = look,
                              !.mentor = IF look THEN FindMentor(id)
                                         ELSE NoMentor]
     IN req' = [req EXCEPT ![r] =
                  IF look /\ ~ok THEN Throw(q)
                  ELSE IF ~q.mentor.exists
                    THEN Respond(q, 401, "Mentor Not Found")
                  ELSE [q EXCEPT !.pc = "save", !.mentor.approved = TRUE]]
  /\ UNCHANGED <<now, store, outbox, cookieJar, hist>>

\* lines 120-131: id check, findById, 401, approved set on the document
approveMentorLookup(r, id, ok) ==
  /\ req[r].pc = "idle"
  /\ LET look == id # "" /\ isValidObjectId(id)
         q == [IdleReq EXCEPT !.op = "approveMentor", !.id = id,
                              !.queried = look,
                              !.mentor = IF look THEN FindMentor(id)
                                         ELSE NoMentor]
     IN req' = [req EXCEPT ![r] =
                  IF look /\ ~ok THEN Throw(q)
                  ELSE IF ~q.mentor.exists
                    THEN Respond(q, 401, "Mentor Not Found")
                  ELSE [q EXCEPT !.pc = "save", !.mentor.approved = TRUE]]
  /\ UNCHANGED <<now, store, outbox, cookieJar, hist>>

\* variant: the document is not written
approveMentorSave_Skip(r, ok) ==
  /\ req[r].op = "approveMentor" /\ req[r].pc = "save"
  /\ LET q == req[r]
     IN IF ok /\ mentors[q.id].exists
        THEN /\ mentors' = mentors
             /\ req' = [req EXCEPT ![r] = [q EXCEPT !.pc = "sendEmail"]]
        ELSE /\ req' = [req EXCEPT ![r] = Throw(q)]
             /\ UNCHANGED mentors
  /\ UNCHANGED <<now, accounts, users, banners, outbox, cookieJar, hist>>

\* line 133: mentor.save(); it rejects when the record is gone
approveMentorSave(r, ok) ==
  /\ req[r].op = "approveMentor" /\ req[r].pc = "save"
  /\ LET q == req[r]
     IN IF ok /\ mentors[q.id].exists
        THEN /\ mentors' = [mentors EXCEPT ![q.id].approved = q.mentor.approved]
             /\ req' = [req EXCEPT ![r] = [q EXCEPT !.pc = "sendEmail"]]
        ELSE /\ req' = [req EXCEPT ![r] = Throw(q)]
             /\ UNCHANGED mentors
  /\ UNCHANGED <<now, accounts, users, banners, outbox, cookieJar, hist>>

\* lines 135-150: the email inside try/catch, then the answer
approveMentorSendEmail(r, ok) ==
  /\ req[r].op = "approveMentor" /\ req[r].pc = "sendEmail"
  /\ LET q == req[r]
     IN IF ok
        THEN /\ outbox' = outbox \cup
                  {[to |-> q.mentor.email,
                    subject |-> "Vita Application Approved!", data |-> ""]}
             /\ req' = [req EXCEPT ![r] =
                          [Respond(q, 200, "Mentor Approved!")
                             EXCEPT !.mailed = "ok"]]
        ELSE /\ req' = [req EXCEPT ![r] =
                          [Respond(q, 500, "Email didn't sent")
                             EXCEPT !.mailed = "failed"]]
             /\ UNCHANGED outbox
  /\ UNCHANGED <<now, store, cookieJar, hist>>

\* variant: the flag is set instead of negated
changeTopMentorStatusLookup_Set(r, id, ok) ==
  /\ req[r].pc = "idle"
  /\ \A m \in MentorIds : toggles[m] + Cardinality(Toggling(m)) < MaxToggles
  /\ LET look == id # "" /\ isValidObjectId(id)
         q == [IdleReq EXCEPT !.op = "changeTopMentorStatus", !.id = id,
                              !.queried = look,
                              !.mentor = IF look THEN FindMentor(id)
                                         ELSE NoMentor]
     IN req' = [req EXCEPT ![r] =
                  IF look /\ ~ok THEN Throw(q)
                  ELSE IF ~q.mentor.exists
                    THEN Respond(q, 401, "Mentor Not Found")
                  ELSE [q EXCEPT !.pc = "save",
                                 !.mentor.top_mentor = TRUE]]
  /\ UNCHANGED <<now, store, outbox, cookieJar, hist>>

\* lines 222-233: id check, findById, 401, the flag negated on the document
changeTopMentorStatusLookup(r, id, ok) ==
  /\ req[r].pc = "idle"
  /\ \A m \in MentorIds : toggles[m] + Cardinality(Toggling(m)) < MaxToggles
  /\ LET look == id # "" /\ isValidObjectId(id)
         q == [IdleReq EXCEPT !.op = "changeTopMentorStatus", !.id = id,
                              !.queried = look,
                              !.mentor = IF look THEN FindMentor(id)
                                         ELSE NoMentor]
     IN req' = [req EXCEPT ![r] =
                  IF look /\ ~ok THEN Throw(q)
                  ELSE IF ~q.mentor.exists
                    THEN Respond(q, 401, "Mentor Not Found")
                  ELSE [q EXCEPT !.pc = "save",
                                 !.mentor.top_mentor = ~q.mentor.top_mentor]]
  /\ UNCHANGED <<now, store, outbox, cookieJar, hist>>

\* line 235: mentor.save()
changeTopMentorStatusSave(r, ok) ==
  /\ req[r].op = "changeTopMentorStatus" /\ req[r].pc = "save"
  /\ LET q == req[r]
     IN IF ok /\ mentors[q.id].exists
        THEN /\ mentors' = [mentors EXCEPT
                              ![q.id].top_mentor = q.mentor.top_mentor]
             /\ req' = [req EXCEPT ![r] = [q EXCEPT !.pc = "sendEmail"]]
        ELSE /\ req' = [req EXCEPT ![r] = Throw(q)]
             /\ UNCHANGED mentors
  /\ UNCHANGED <<now, accounts, users, banners, outbox, cookieJar, hist>>

\* lines 237-252: the email inside try/catch, then the answer
changeTopMentorStatusSendEmail(r, ok) ==
  /\ req[r].op = "changeTopMentorStatus" /\ req[r].pc = "sendEmail"
  /\ LET q == req[r]
     IN IF ok
        THEN /\ outbox' = outbox \cup
                  {[to |-> q.mentor.email, subject |-> "Vita top mentor",
                    data |-> Bool2Str(q.mentor.top_mentor)]}
             /\ req' = [req EXCEPT ![r] =
                          [Respond(q, 200, "Mentor Approved!")
                             EXCEPT !.mailed = "ok"]]
        ELSE /\ req' = [req EXCEPT ![r] =
                          [Respond(q, 500, "Email didn't sent")
                             EXCEPT !.mailed = "failed"]]
             /\ UNCHANGED outbox
  /\ toggles' = [toggles EXCEPT ![req[r].id] = @ + 1]
  /\ UNCHANGED <<now, store, cookieJar, issuedLog, sentCount, okLog, tried,
                 top0>>

\* variant: the handler goes on as soon as one deletion has resolved
AwaitAll_Any(q) ==
  IF q.pc # "deleting" THEN q
  ELSE IF "failed" \in {q.delUser, q.delMentor} THEN Throw(q)
  ELSE IF q.delUser = "ok" \/ q.delMentor = "ok"
    THEN [q EXCEPT !.pc = "sendEmail"]
  ELSE q

\* variant: the handler goes on once both deletions have settled, failed or not
AwaitAll_Settled(q) ==
  IF q.pc # "deleting" THEN q
  ELSE IF q.delUser # "pending" /\ q.delMentor # "pending"
    THEN [q EXCEPT !.pc = "sendEmail"]
  ELSE q

\* Promise.all: rejects at the first rejection, resolves when both resolved
AwaitAll(q) ==
  IF q.pc # "deleting" THEN q
  ELSE IF "failed" \in {q.delUser, q.delMentor} THEN Throw(q)
  ELSE IF q.delUser = "ok" /\ q.delMentor = "ok"
    THEN [q EXCEPT !.pc = "sendEmail"]
  ELSE q

\* lines 154-163: id check, findById on the users, 404; the deletions start
rejectMentorLookup(r, id, ok) ==
  /\ req[r].pc = "idle"
  /\ LET look == id # "" /\ isValidObjectId(id)
         q == [IdleReq EXCEPT !.op = "rejectMentor", !.id = id, !.queried = look,
                              !.user = IF look THEN FindUser(id) ELSE NoUser]
     IN req' = [req EXCEPT ![r] =
                  IF look /\ ~ok THEN Throw(q)
                  ELSE IF ~q.user.exists THEN Respond(q, 404, "User didn't found!")
                  ELSE [q EXCEPT !.pc = "deleting", !.delUser = "pending",
                                 !.delMentor = "pending"]]
  /\ UNCHANGED <<now, store, outbox, cookieJar, hist>>

\* line 166: user.delete()
rejectMentorDeleteUser(r, ok) ==
  /\ req[r].op = "rejectMentor" /\ req[r].delUser = "pending"
  /\ IF ok
     THEN /\ users' = [users EXCEPT ![req[r].id] = NoUser]
          /\ req' = [req EXCEPT ![r] = AwaitAll([@ EXCEPT !.delUser = "ok"])]
     ELSE /\ req' = [req EXCEPT ![r] = AwaitAll([@ EXCEPT !.delUser = "failed"])]
          /\ UNCHANGED users
  /\ UNCHANGED <<now, accounts, mentors, banners, outbox, cookieJar, hist>>

\* line 167: MentorModel.deleteOne({ _id: user.mentor_information })
rejectMentorDeleteMentor(r, ok) ==
  /\ req[r].op = "rejectMentor" /\ req[r].delMentor = "pending"
  /\ IF ok
     THEN /\ mentors' = [m \in MentorIds |->
                           IF m = req[r].user.mentor_information THEN NoMentor
                           ELSE mentors[m]]
          /\ req' = [req EXCEPT ![r] = AwaitAll([@ EXCEPT !.delMentor = "ok"])]
     ELSE /\ req' = [req EXCEPT ![r] =
                       AwaitAll([@ EXCEPT !.delMentor = "failed"])]
          /\ UNCHANGED mentors
  /\ UNCHANGED <<now, accounts, users, banners, outbox, cookieJar, hist>>

\* variant: the catch block answers as if the email had been sent
rejectMentorSendEmail_Swallow(r, ok) ==
  /\ req[r].op = "rejectMentor" /\ req[r].pc = "sendEmail"
  /\ LET q == req[r]
     IN IF ok
        THEN /\ outbox' = outbox \cup
                  {[to |-> q.user.email, subject |-> "Vita Application rejected",
                    data |-> ""]}
             /\ req' = [req EXCEPT ![r] =
                          [Respond(q, 200, "Mentor rejected successfully!")
                             EXCEPT !.mailed = "ok"]]
        ELSE /\ req' = [req EXCEPT ![r] =
                          [Respond(q, 200, "Mentor rejected successfully!")
                             EXCEPT !.mailed = "failed"]]
             /\ UNCHANGED outbox
  /\ UNCHANGED <<now, store, cookieJar, hist>>

\* lines 170-184: the email inside try/catch, the 200 answer inside the try block
rejectMentorSendEmail(r, ok) ==
  /\ req[r].op = "rejectMentor" /\ req[r].pc = "sendEmail"
  /\ LET q == req[r]
     IN IF ok
        THEN /\ outbox' = outbox \cup
                  {[to |-> q.user.email, subject |-> "Vita Application rejected",
                    data |-> ""]}
             /\ req' = [req EXCEPT ![r] =
                          [Respond(q, 200, "Mentor rejected successfully!")
                             EXCEPT !.mailed = "ok"]]
        ELSE /\ req' = [req EXCEPT ![r] =
                          [Respond(q, 500, "Email didn't sent")
                             EXCEPT !.mailed = "failed"]]
             /\ UNCHANGED outbox
  /\ UNCHANGED <<now, store, cookieJar, hist>>

\* lines 188-197: id check, findById on the users, 404; the deletions start
deleteUserLookup(r, id, ok) ==
  /\ req[r].pc = "idle"
  /\ LET look == id # "" /\ isValidObjectId(id)
         q == [IdleReq EXCEPT !.op = "deleteUser", !.id = id, !.queried = look,
                              !.user = IF look THEN FindUser(id) ELSE NoUser]
     IN req' = [req EXCEPT ![r] =
                  IF look /\ ~ok THEN Throw(q)
                  ELSE IF ~q.user.exists THEN Respond(q, 404, "User not found")
                  ELSE [q EXCEPT !.pc = "deleting", !.delUser = "pending",
                                 !.delMentor = "pending"]]
  /\ UNCHANGED <<now, store, outbox, cookieJar, hist>>

\* line 200: user.delete()
deleteUserDeleteUser(r, ok) ==
  /\ req[r].op = "deleteUser" /\ req[r].delUser = "pending"
  /\ IF ok
     THEN /\ users' = [users EXCEPT ![req[r].id] = NoUser]
          /\ req' = [req EXCEPT ![r] = AwaitAll([@ EXCEPT !.delUser = "ok"])]
     ELSE /\ req' = [req EXCEPT ![r] = AwaitAll([@ EXCEPT !.delUser = "failed"])]
          /\ UNCHANGED users
  /\ UNCHANGED <<now, accounts, mentors, banners, outbox, cookieJar, hist>>

\* line 201: MentorModel.deleteOne({ _id: user.mentor_information })
deleteUserDeleteMentor(r, ok) ==
  /\ req[r].op = "deleteUser" /\ req[r].delMentor = "pending"
  /\ IF ok
     THEN /\ mentors' = [m \in MentorIds |->
                           IF m = req[r].user.mentor_information THEN NoMentor
                           ELSE mentors[m]]
          /\ req' = [req EXCEPT ![r] = AwaitAll([@ EXCEPT !.delMentor = "ok"])]
     ELSE /\ req' = [req EXCEPT ![r] =
                       AwaitAll([@ EXCEPT !.delMentor = "failed"])]
          /\ UNCHANGED mentors
  /\ UNCHANGED <<now, accounts, users, banners, outbox, cookieJar, hist>>

\* lines 204-218: the email inside try/catch, the 200 answer inside the try block
deleteUserSendEmail(r, ok) ==
  /\ req[r].op = "deleteUser" /\ req[r].pc = "sendEmail"
  /\ LET q == req[r]
     IN IF ok
        THEN /\ outbox' = outbox \cup
                  {[to |-> q.user.email, subject |-> "User account deleted",
                    data |-> q.user.email]}
             /\ req' = [req EXCEPT ![r] =
                          [Respond(q, 200, "Mentor rejected successfully!")
                             EXCEPT !.mailed = "ok"]]
        ELSE /\ req' = [req EXCEPT ![r] =
                          [Respond(q, 500, "Email didn't sent")
                             EXCEPT !.mailed = "failed"]]
             /\ UNCHANGED outbox
  /\ UNCHANGED <<now, store, cookieJar, hist>>

\* --------------------------------------------------------------- banner
\* creations started and not yet settled
Creating == {s \in Slots : req[s].mkBanner = "pending"}

\* lines 256-257: both store operations are started, in no order
modifyBanner(r, payload) ==
  /\ req[r].pc = "idle"
  /\ Len(banners) + Cardinality(Creating) < MaxBanners
  /\ req' = [req EXCEPT ![r] =
               [IdleReq EXCEPT !.op = "modifyBanner", !.payload = payload,
                               !.pc = "all", !.mkBanner = "pending",
                               !.rmBanners = "pending"]]
  /\ UNCHANGED <<now, store, outbox, cookieJar, hist>>

\* lines 259-268: Promise.all inside try/catch, 200 with the banner or 500
AwaitBanner(q) ==
  IF q.pc # "all" THEN q
  ELSE IF "failed" \in {q.mkBanner, q.rmBanners}
    THEN Respond(q, 500, "err.message")
  ELSE IF q.mkBanner = "ok" /\ q.rmBanners = "ok"
    THEN [Respond(q, 200, "success") EXCEPT !.banner = q.payload]
  ELSE q

\* BannerModel.create(req.body)
modifyBannerCreate(r, ok) ==
  /\ req[r].op = "modifyBanner" /\ req[r].mkBanner = "pending"
  /\ IF ok
     THEN /\ banners' = Append(banners, req[r].payload)
          /\ req' = [req EXCEPT ![r] = AwaitBanner([@ EXCEPT !.mkBanner = "ok"])]
     ELSE /\ req' = [req EXCEPT ![r] =
                       AwaitBanner([@ EXCEPT !.mkBanner = "failed"])]
          /\ UNCHANGED banners
  /\ UNCHANGED <<now, accounts, users, mentors, outbox, cookieJar, hist>>

\* BannerModel.deleteMany({})
modifyBannerDeleteMany(r, ok) ==
  /\ req[r].op = "modifyBanner" /\ req[r].rmBanners = "pending"
  /\ IF ok
     THEN /\ banners' = <<>>
          /\ req' = [req EXCEPT ![r] =
                       AwaitBanner([@ EXCEPT !.rmBanners = "ok"])]
     ELSE /\ req' = [req EXCEPT ![r] =
                       AwaitBanner([@ EXCEPT !.rmBanners = "failed"])]
          /\ UNCHANGED banners
  /\ UNCHANGED <<now, accounts, users, mentors, outbox, cookieJar, hist>>

ModStep(r) ==
  \/ \E p \in Principals : adminAuth(r, p)
  \/ \E id \in IdInputs, ok \in BOOLEAN : approveMentorLookup(r, id, ok)
  \/ \E ok \in BOOLEAN : approveMentorSave(r, ok)
  \/ \E ok \in BOOLEAN : approveMentorSendEmail(r, ok)
  \/ \E id \in IdInputs, ok \in BOOLEAN : changeTopMentorStatusLookup(r, id, ok)
  \/ \E ok \in BOOLEAN : changeTopMentorStatusSave(r, ok)
  \/ \E ok \in BOOLEAN : changeTopMentorStatusSendEmail(r, ok)
  \/ \E id \in IdInputs, ok \in BOOLEAN : rejectMentorLookup(r, id, ok)
  \/ \E ok \in BOOLEAN : rejectMentorDeleteUser(r, ok)
  \/ \E ok \in BOOLEAN : rejectMentorDeleteMentor(r, ok)
  \/ \E ok \in BOOLEAN : rejectMentorSendEmail(r, ok)
  \/ \E id \in IdInputs, ok \in BOOLEAN : deleteUserLookup(r, id, ok)
  \/ \E ok \in BOOLEAN : deleteUserDeleteUser(r, ok)
  \/ \E ok \in BOOLEAN : deleteUserDeleteMentor(r, ok)
  \/ \E ok \in BOOLEAN : deleteUserSendEmail(r, ok)
  \/ \E b \in Payloads : modifyBanner(r, b)
  \/ \E ok \in BOOLEAN : modifyBannerCreate(r, ok)
  \/ \E ok \in BOOLEAN : modifyBannerDeleteMany(r, ok)
  \/ Release(r)

\* one client, one request at a time
NextModSeq == ModStep("r1")

\* the workflows on the mentor records, requests overlapping
MentorStep(r) ==
  \/ \E id \in IdInputs, ok \in BOOLEAN : approveMentorLookup(r, id, ok)
  \/ \E ok \in BOOLEAN : approveMentorSave(r, ok)
  \/ \E ok \in BOOLEAN : approveMentorSendEmail(r, ok)
  \/ \E id \in IdInputs, ok \in BOOLEAN : changeTopMentorStatusLookup(r, id, ok)
  \/ \E ok \in BOOLEAN : changeTopMentorStatusSave(r, ok)
  \/ \E ok \in BOOLEAN : changeTopMentorStatusSendEmail(r, ok)
  \/ \E id \in IdInputs, ok \in BOOLEAN : rejectMentorLookup(r, id, ok)
  \/ \E ok \in BOOLEAN : rejectMentorDeleteUser(r, ok)
  \/ \E ok \in BOOLEAN : rejectMentorDeleteMentor(r, ok)
  \/ \E ok \in BOOLEAN : rejectMentorSendEmail(r, ok)
  \/ Release(r)

NextMod == \E r \in Slots : MentorStep(r)

SpecModSeq == Init /\ [][NextModSeq]_vars

SpecMod == Init /\ [][NextMod]_vars

AuthStep(r) ==
  \/ \E p \in Principals : adminAuth(r, p)
  \/ \E e \in Emails, p \in Passwords, ok \in BOOLEAN :
       adminLoginLookup(r, e, p, ok)
  \/ \E v \in OtpValues, ok \in BOOLEAN : adminLoginGenerateOTP(r, v, ok)
  \/ \E ok \in BOOLEAN : adminLoginSendEmail(r, ok)
  \/ \E e \in Emails, c \in Candidates, ok \in BOOLEAN :
       adminVerifyOtpLookup(r, e, c, ok)
  \/ \E ok \in BOOLEAN : adminVerifyOtpCheck(r, ok)
  \/ \E e \in Emails, p \in Passwords, ok \in BOOLEAN :
       createAdmin(r, e, p, ok)
  \/ adminLogout(r)
  \/ Release(r)

\* one client, one request at a time
NextAuthSeq == Tick \/ AuthStep("r1")

\* the login flow of one account, requests overlapping within one validity
\* window of the OTP (the clock stands still)
LoginStep(r) ==
  \/ \E p \in Passwords, ok \in BOOLEAN :
       adminLoginLookup(r, "a@x.com", p, ok)
  \/ \E v \in OtpValues, ok \in BOOLEAN : adminLoginGenerateOTP(r, v, ok)
  \/ \E ok \in BOOLEAN : adminLoginSendEmail(r, ok)
  \/ \E c \in Candidates, ok \in BOOLEAN :
       adminVerifyOtpLookup(r, "a@x.com", c, ok)
  \/ \E ok \in BOOLEAN : adminVerifyOtpCheck(r, ok)
  \/ Release(r)

NextAuth == \E r \in Slots : LoginStep(r)

SpecAuthSeq == Init /\ [][NextAuthSeq]_vars

SpecAuth == Init /\ [][NextAuth]_vars

\* the login flow has not acted yet
AuthUntouched ==
  /\ now = 0 /\ cookieJar = "" /\ Issued = 0
  /\ ~accounts["b@x.com"].exists

\* the moderation workflows have not acted yet
ModUntouched ==
  /\ banners = <<>>
  /\ \A u \in UserIds : users[u].exists
  /\ \A m \in MentorIds :
       /\ mentors[m].exists /\ ~mentors[m].approved
       /\ mentors[m].top_mentor = top0[m] /\ toggles[m] = 0
  /\ \A mail \in outbox : mail.subject = "Vita Admin Login"

\* one client, one request at a time, over all the handlers; the login flow
\* and the moderation workflows share no record, and a run explores the one
\* from the initial state of the other
Next ==
  \/ ModUntouched /\ NextAuthSeq
  \/ AuthUntouched /\ NextModSeq

Spec == Init /\ [][Next]_vars

\* ======================================================== the properties
Answered(q) == q.pc = "done"

\* everything the caller sees of an answer
Response(q) == [status |-> q.status, body |-> q.body,
                isLoggedIn |-> q.isLoggedIn, resUser |-> q.resUser,
                banner |-> q.banner, cookie |-> q.cookie,
                cleared |-> q.cleared]

InvalidOtp(q) == q.status = 401 /\ q.body = "Invalid OTP" /\ q.cookie = NoCookie

\* the candidates verifyOTP would accept for an account right now
Live(e) == {c \in Candidates : verifyOTP(accounts[e], c, now)}

\* a value issued for the account before its latest OTP
IssuedEarlier(e, c) ==
  \E i \in 1..(Len(issuedLog[e]) - 1) : issuedLog[e][i] = c

Latest(e) == issuedLog[e][Len(issuedLog[e])]

C2_ExactlyFirstSucceeds ==
  \A r \in Slots :
    LET q == req[r] IN
      (q.op = "adminVerifyOtp" /\ Answered(q) /\ Correct(q))
      => IF q.first
         THEN q.status = 200 /\ q.cookie = SetCookie(issueToken(q.email))
         ELSE InvalidOtp(q)

\* C2 amended: the first such call is answered 200 with the cookie exactly
\* when it is made before the OTP expires; every later call, and a first call
\* made after expiry, is answered 401 'Invalid OTP'; no OTP is accepted twice.
C2_SingleUse ==
  /\ \A r \in Slots :
       LET q == req[r] IN
         (q.op = "adminVerifyOtp" /\ Answered(q) /\ Correct(q))
         => IF q.first /\ q.at <= q.admin.otpExpires
            THEN q.status = 200 /\ q.cookie = SetCookie(issueToken(q.email))
            ELSE InvalidOtp(q)
  /\ \A e \in Emails : okLog[e] <= 1

C2_Witness ==
  \E r \in Slots :
    LET q == req[r] IN
      /\ q.op = "adminVerifyOtp" /\ Answered(q) /\ Correct(q)
      /\ ~q.first /\ q.at <= q.admin.otpExpires
      /\ okLog[q.email] = 1 /\ InvalidOtp(q)

Expired(e) == accounts[e].hasOtp /\ now > accounts[e].otpExpires

\* C3: a call made after the expiry instant is answered 401 'Invalid OTP' even
\* with the issued value, and an expired OTP stays unverifiable until a login
\* issues a new one.
C3_ExpiredRejected ==
  /\ [](\A r \in Slots :
          LET q == req[r] IN
            (/\ q.op = "adminVerifyOtp" /\ Answered(q) /\ q.admin.hasOtp
             /\ q.at > q.admin.otpExpires)
            => InvalidOtp(q))
  /\ [][\A e \in Emails :
          (Expired(e) /\ issuedLog'[e] = issuedLog[e])
          => (Expired(e)' /\ Live(e)' = {})]_vars

C3_Witness ==
  \E r \in Slots :
    LET q == req[r] IN
      /\ q.op = "adminVerifyOtp" /\ Answered(q) /\ Correct(q)
      /\ ~q.admin.otpUsed /\ q.at > q.admin.otpExpires
      /\ InvalidOtp(q)

InvalidCredentials ==
  [Response(IdleReq) EXCEPT !.status = 401,
                            !.body = "Invalid email or password"]

\* C4: adminLogin answers an unknown email and a wrong password for a known
\* email with one and the same response.
C4_NoEnumeration ==
  \A r \in Slots :
    LET q == req[r] IN
      (/\ q.op = "adminLogin" /\ Answered(q)
       /\ (~q.admin.exists \/ ~comparePassword(q.admin, q.password)))
      => Response(q) = InvalidCredentials

C4_Witness ==
  \E r \in Slots :
    LET q == req[r] IN
      /\ q.op = "adminLogin" /\ Answered(q)
      /\ q.admin.exists /\ ~comparePassword(q.admin, q.password)
      /\ accounts[q.email].exists
      /\ \E e \in Emails : ~accounts[e].exists
      /\ Response(q) = InvalidCredentials

\* C8: adminAuth always answers 200, isLoggedIn false without a principal and
\* true with the principal otherwise, and changes nothing but the answer.
C8_WhoAmIPure ==
  /\ [](\A r \in Slots :
          LET q == req[r] IN
            /\ (q.op = "adminAuth" /\ q.pc # "idle")
               => /\ Answered(q) /\ q.status = 200
                  /\ q.isLoggedIn = (q.principal # "")
                  /\ q.resUser = q.principal
                  /\ q.cookie = NoCookie /\ ~q.cleared)
  /\ [][\A r \in Slots :
          (req[r].pc = "idle" /\ req'[r].op = "adminAuth")
          => UNCHANGED <<now, store, outbox, cookieJar, hist>>]_vars

C8_Witness ==
  \E r \in Slots :
    LET q == req[r] IN
      /\ q.op = "adminAuth" /\ Answered(q) /\ q.principal = ""
      /\ q.status = 200 /\ ~q.isLoggedIn
      /\ accounts["a@x.com"].hasOtp /\ cookieJar # ""

\* -------------------------------------------------- moderation properties
Cascade == {"rejectMentor", "deleteUser"}
Notifying == {"approveMentor", "changeTopMentorStatus"} \cup Cascade

\* the mutation of the workflow is in the store
Committed(q) ==
  CASE q.op = "approveMentor" ->
         mentors[q.id].exists /\ mentors[q.id].approved
    [] q.op = "changeTopMentorStatus" ->
         /\ mentors[q.id].exists
         /\ mentors[q.id].top_mentor = q.mentor.top_mentor
    [] q.op \in Cascade ->
         /\ ~users[q.id].exists
         /\ ~mentors[q.user.mentor_information].exists
    [] OTHER -> FALSE

\* C5: once rejectMentor or deleteUser has answered for an existing user, the
\* user record and its mentor profile are both gone, also after a failed email.
C5_CascadeDeleted ==
  \A r \in Slots :
    LET q == req[r] IN
      (q.op \in Cascade /\ Answered(q) /\ q.user.exists)
      => /\ ~users[q.id].exists
         /\ ~mentors[q.user.mentor_information].exists

C5_Witness ==
  \E r \in Slots :
    LET q == req[r] IN
      /\ q.op = "deleteUser" /\ Answered(q) /\ q.user.exists
      /\ q.status = 500 /\ q.body = "Email didn't sent"
      /\ ~users[q.id].exists /\ ~mentors["m1"].exists

\* C6: when modifyBanner answers 200, the banner of the answer is the one and
\* only banner in the store.
C6_ReplaceAll ==
  \A r \in Slots :
    LET q == req[r] IN
      (q.op = "modifyBanner" /\ Answered(q) /\ q.status = 200)
      => banners = <<q.banner>>

Xor(a, b) == a # b

\* C7: with no call in flight, the stored flag is the original one negated
\* once per answered changeTopMentorStatus call; two calls restore it.
C7_ToggleInvolution ==
  \A m \in MentorIds :
    (mentors[m].exists /\ Toggling(m) = {})
    => mentors[m].top_mentor = Xor(top0[m], toggles[m] % 2 = 1)

C7_Witness ==
  \E r \in Slots :
    LET q == req[r] IN
      /\ q.op = "changeTopMentorStatus" /\ Answered(q) /\ q.mailed = "failed"
      /\ toggles[q.id] = 2 /\ mentors[q.id].exists
      /\ mentors[q.id].top_mentor = top0[q.id]

\* C9: the email is attempted only once the mutation is in the store, and a
\* failed email leaves the store as it is.
C9_MutationBeforeEmail ==
  /\ [](\A r \in Slots :
          LET q == req[r] IN
            (q.op \in Notifying /\ (q.pc = "sendEmail" \/ q.mailed # "none"))
            => Committed(q))
  /\ [][\A r \in Slots :
          (req[r].pc = "sendEmail" /\ req'[r].mailed = "failed")
          => UNCHANGED store]_vars

C9_Witness ==
  \E r \in Slots :
    LET q == req[r] IN
      /\ q.op = "approveMentor" /\ q.mailed = "failed" /\ q.status = 500
      /\ mentors[q.id].approved

\* C10: a 200 answer implies the mutation is in the store, and a failed email
\* is always answered 500 "Email didn't sent".
C10_OutcomeReporting ==
  \A r \in Slots :
    LET q == req[r] IN
      q.op \in Notifying
      => /\ (Answered(q) /\ q.status = 200) => Committed(q)
         /\ q.mailed = "failed"
            => (Answered(q) /\ q.status = 500 /\ q.body = "Email didn't sent"
                /\ Committed(q))

C10_Witness ==
  \E r \in Slots :
    LET q == req[r] IN
      /\ q.op = "changeTopMentorStatus" /\ q.mailed = "failed"
      /\ Answered(q) /\ q.status = 500
      /\ mentors[q.id].top_mentor # top0[q.id]

\* the not-found answer of each endpoint
NotFound(op) ==
  CASE op \in {"approveMentor", "changeTopMentorStatus"} ->
         [Response(IdleReq) EXCEPT !.status = 401, !.body = "Mentor Not Found"]
    [] op = "rejectMentor" ->
         [Response(IdleReq) EXCEPT !.status = 404, !.body = "User didn't found!"]
    [] op = "deleteUser" ->
         [Response(IdleReq) EXCEPT !.status = 404, !.body = "User not found"]

\* the record the handler looked for was handed to it
Found(q) == q.mentor.exists \/ q.user.exists

\* C11: a missing id, an invalid id and a well-formed id without record get
\* the endpoint's one not-found answer, and a missing or invalid id never
\* reaches the store lookup.
C11_IdValidation ==
  \A r \in Slots :
    LET q == req[r] IN
      q.op \in Notifying
      => /\ (Answered(q) /\ ~Found(q)) => Response(q) = NotFound(q.op)
         /\ (q.id = "" \/ ~isValidObjectId(q.id))
            => (~q.queried /\ Answered(q) /\ Response(q) = NotFound(q.op))
         /\ (isValidObjectId(q.id) /\ q.id # "") => q.queried

C11_Witness ==
  \E r \in Slots :
    LET q == req[r] IN
      /\ q.op = "rejectMentor" /\ q.id = "not-an-id" /\ ~q.queried
      /\ Answered(q) /\ q.status = 404 /\ users["u1"].exists

\* the request was answered with a validation or lookup error
ErrorAnswer(q) ==
  /\ Answered(q)
  /\ \/ q.op = "adminLogin" /\ q.status = 401
     \/ q.op = "adminVerifyOtp" /\ ~q.admin.exists
     \/ q.op \in Notifying /\ ~Found(q)

\* C12: a validation or lookup error is answered at once and leaves the
\* records, the OTP state, the sent emails and the cookie as they were.
C12_ErrorsHaveNoEffect ==
  /\ [](\A r \in Slots :
          LET q == req[r] IN
            ErrorAnswer(q)
            => /\ q.cookie = NoCookie /\ q.mailed = "none" /\ ~Pending(q)
               /\ q.delUser = "none" /\ q.delMentor = "none")
  /\ [][\A r \in Slots :
          (req[r].pc = "idle" /\ ErrorAnswer(req[r])')
          => UNCHANGED <<store, outbox, cookieJar, issuedLog>>]_vars

C12_Witness ==
  \E r \in Slots :
    LET q == req[r] IN
      /\ q.op = "adminLogin" /\ ErrorAnswer(q)
      /\ q.admin.exists /\ q.admin.hasOtp
      /\ accounts[q.email] = q.admin /\ cookieJar = ""

\* the value was issued for the account by some adminLogin
WasIssued(e, c) == \E i \in 1..Len(issuedLog[e]) : issuedLog[e][i] = c

\* C13: an adminToken cookie appears only in the 200 answer of adminVerifyOtp,
\* for an OTP that an adminLogin with the matching password issued for that
\* account; adminLogin itself sets no cookie.
C13_NoShortcut ==
  /\ [](\A r \in Slots :
          LET q == req[r] IN
            /\ q.cookie # NoCookie
               => /\ q.op = "adminVerifyOtp" /\ Answered(q) /\ q.status = 200
                  /\ q.cookie = SetCookie(issueToken(q.email))
                  /\ WasIssued(q.email, q.otp)
            /\ (q.op = "adminLogin" /\ q.pc \in {"generateOTP", "sendEmail"})
               => comparePassword(accounts[q.email], q.password)
            /\ (q.op = "adminLogin" /\ Answered(q) /\ q.status = 200)
               => /\ comparePassword(accounts[q.email], q.password)
                  /\ WasIssued(q.email, q.otp))
  /\ [](\A e \in Emails :
          /\ cookieJar = issueToken(e) => Len(issuedLog[e]) >= 1
          /\ Len(issuedLog[e]) >= 1 => accounts[e].exists)
  /\ [][\A e \in Emails :
          (cookieJar' = issueToken(e) /\ cookieJar # issueToken(e))
          => \E r \in Slots :
               /\ req[r].op = "adminVerifyOtp" /\ req[r].pc = "verifyOTP"
               /\ req[r].email = e /\ Answered(req[r])'
               /\ req'[r].status = 200]_vars

C13_Witness ==
  \E r \in Slots :
    LET q == req[r] IN
      /\ q.op = "adminVerifyOtp" /\ Answered(q) /\ q.status = 200
      /\ q.cookie = SetCookie(issueToken(q.email))
      /\ cookieJar = issueToken(q.email)
      /\ sentCount[q.email] >= 1 /\ q.otp = Latest(q.email)

\* the pc values at which a handler waits for its mutation of the store
Mutating == {"save", "deleting", "all"}

\* C14: a handler whose mutation step fails answers 500; no request in its
\* mutation step ends without an answer.
C14_StoreFailureAnswered ==
  /\ [](\A r \in Slots :
          LET q == req[r] IN
            "failed" \in {q.delUser, q.delMentor, q.mkBanner, q.rmBanners}
            => (Answered(q) /\ q.status = 500))
  /\ [][\A r \in Slots :
          req[r].pc \in Mutating
          => (req'[r].pc \in Mutating \cup {"sendEmail"}
              \/ (Answered(req[r])' /\ req'[r].status \in {200, 500}))]_vars

\* the handler of the request has ended and nothing it started is running
Finished(q) == q.pc \in {"done", "thrown"} /\ ~Pending(q)

\* C15: when rejectMentor or deleteUser has finished, with whatever outcome,
\* the user record and its mentor profile are both present or both absent.
C15_NoOrphans ==
  \A r \in Slots :
    LET q == req[r] IN
      (q.op \in Cascade /\ Finished(q) /\ q.user.exists)
      => (users[q.id].exists = mentors[q.user.mentor_information].exists)

\* C16: both deletions are started together, the email is attempted only when
\* both have resolved, and a request with a failed deletion sends no email.
C16_EmailAfterBothDeletions ==
  /\ [](\A r \in Slots :
          LET q == req[r] IN
            q.op \in Cascade
            => /\ (q.delUser = "none") = (q.delMentor = "none")
               /\ (q.pc = "deleting") => (q.delUser # "none")
               /\ (q.pc = "sendEmail" \/ q.mailed # "none")
                  => (q.delUser = "ok" /\ q.delMentor = "ok")
               /\ "failed" \in {q.delUser, q.delMentor}
                  => (q.pc = "thrown" /\ q.mailed = "none"))
  /\ [][\A r \in Slots :
          (req[r].op \in Cascade
           /\ "failed" \in {req[r].delUser, req[r].delMentor})
          => (outbox' = outbox /\ req'[r].mailed = "none")]_vars

C16_Witness ==
  \E r \in Slots :
    LET q == req[r] IN
      /\ q.op = "rejectMentor" /\ q.pc = "thrown"
      /\ q.delMentor = "failed" /\ q.delUser = "ok"
      /\ ~users[q.id].exists /\ outbox = {}

\* the call loaded the account after the OTPs issued so far, two at least
LoadedAfterLogins(q) ==
  /\ q.op = "adminVerifyOtp" /\ Answered(q) /\ q.admin.exists
  /\ q.seen >= 2 /\ q.seen = Len(issuedLog[q.email]) /\ q.quiet

\* each login in flight has stored its own OTP, and the account holds the
\* one issued last
LastWriteWins ==
  /\ \A r \in Slots :
       LET q == req[r] IN
         (q.op = "adminLogin" /\ (q.pc = "sendEmail" \/ q.mailed # "none"))
         => WasIssued(q.email, q.otp)
  /\ \A e \in Emails :
       accounts[e].hasOtp => accounts[e].otp = Latest(e)

\* a login of the account, still in its slot, stored its OTP after another
\* login that began no earlier than it had stored one
Interleaved(e) ==
  \E s \in Slots :
    /\ req[s].op = "adminLogin" /\ req[s].email = e
    /\ req[s].nth - req[s].seen >= 2

C18_WrongAttemptsHarmless ==
  /\ [](\A r \in Slots :
          LET q == req[r] IN
            (q.op = "adminVerifyOtp" /\ Answered(q) /\ q.admin.exists)
            => /\ ~Correct(q) => InvalidOtp(q)
               /\ (/\ Correct(q) /\ ~q.admin.otpUsed
                   /\ q.at <= q.admin.otpExpires)
                  => /\ q.status = 200 /\ q.body = "OTP verified"
                     /\ q.cookie.name = "adminToken" /\ q.cookie.httpOnly
                     /\ q.cookie.maxAge = 86400
                     /\ q.cookie.value = issueToken(q.email))
  /\ [][\A r \in Slots :
          (req[r].pc = "verifyOTP" /\ Answered(req[r])'
           /\ req'[r].status = 401)
          => (accounts' = accounts /\ cookieJar' = cookieJar
              /\ \A e \in Emails : Live(e)' = Live(e))]_vars

C18_Witness ==
  \E r \in Slots :
    LET q == req[r] IN
      /\ q.op = "adminVerifyOtp" /\ Answered(q) /\ InvalidOtp(q)
      /\ q.otp = "000000" /\ q.admin.hasOtp
      /\ Live(q.email) = {q.admin.otp} /\ accounts[q.email] = q.admin

\* C19: adminLogin persists the new OTP on the account before the email is
\* sent; when the send fails the handler ends without a response, and the new
\* OTP stays pending on the account, where it has replaced any earlier one.
C19_FailedEmailKeepsOtp ==
  /\ [](\A r \in Slots :
          LET q == req[r] e == req[r].email IN
            (q.op = "adminLogin" /\ (q.pc = "sendEmail" \/ q.mailed = "failed"))
            => /\ accounts[e].hasOtp /\ accounts[e].otp = q.otp
               /\ ~accounts[e].otpUsed
               /\ accounts[e].otpExpires = q.admin.otpExpires
               /\ Latest(e) = q.otp
               /\ now <= accounts[e].otpExpires => Live(e) = {q.otp}
               /\ q.mailed = "failed"
                  => /\ q.pc = "thrown" /\ ~Answered(q)
                     /\ q.status = 0 /\ q.body = ""
                     /\ sentCount[e] < Len(issuedLog[e]))
  /\ [][\A r \in Slots :
          (req[r].op = "adminLogin" /\ req[r].pc = "sendEmail"
           /\ req'[r].mailed = "failed")
          => (accounts' = accounts /\ outbox' = outbox)]_vars

C19_Witness ==
  \E r \in Slots :
    LET q == req[r] e == req[r].email IN
      /\ q.op = "adminLogin" /\ q.pc = "thrown" /\ q.mailed = "failed"
      /\ Len(issuedLog[e]) = 2 /\ issuedLog[e][1] # issuedLog[e][2]
      /\ accounts[e].hasOtp /\ accounts[e].otp = issuedLog[e][2]
      /\ Live(e) = {issuedLog[e][2]}

\* C20 as stated: also when changeTopMentorStatus calls on one mentor overlap,
\* the stored flag is the original one negated once per completed call, and
\* the value in each notification email is the value that call stored.
C20_FlipPerCall ==
  /\ \A m \in MentorIds :
       (mentors[m].exists /\ Toggling(m) = {})
       => mentors[m].top_mentor = Xor(top0[m], toggles[m] % 2 = 1)
  /\ \A r \in Slots :
       LET q == req[r] IN
         (q.op = "changeTopMentorStatus" /\ Answered(q) /\ q.mailed = "ok")
         => [to |-> q.mentor.email, subject |-> "Vita top mentor",
             data |-> Bool2Str(q.mentor.top_mentor)] \in outbox

====
